---- MODULE Spec2Model ----
(***************************************************************************)
(* Model of the dual_quaternion library (src/src/lib.rs).                  *)
(*                                                                         *)
(* The library is a set of pure functions over                             *)
(*   DualQuaternion<T> = (Quaternion<T>, Quaternion<T>),                   *)
(*   Quaternion<T>     = (T, [T; 3]).                                      *)
(* A quaternion is modelled as <<w, <<x, y, z>>>>, a dual-quaternion as    *)
(* <<real, dual>>, so that the Rust fields q.0 and q.1 are q[1] and q[2].  *)
(*                                                                         *)
(* The scalar type T is modelled in exact arithmetic.  A scalar is a       *)
(* triple <<a, b, d>> of integers that stands for (a + b*sqrt(2)) / d,     *)
(* kept in lowest terms with d > 0, so that equal numbers are equal        *)
(* triples.  The field Q(sqrt 2) holds the rationals, the halves that      *)
(* from_rotation_and_translation introduces, and the components           *)
(* sqrt(2)/2 of the quarter-turn rotations used by the library's tests.    *)
(***************************************************************************)
EXTENDS Integers, Sequences, FiniteSets, TLC

VARIABLES pc, steps, r, t, p, s, dq, r_prime, t_prime, v_prime

vars == <<pc, steps, r, t, p, s, dq, r_prime, t_prime, v_prime>>

(***************************************************************************)
(* Bounds of the checked input sets.                                       *)
(***************************************************************************)
\* translation and point coordinates range over -MaxCoord .. MaxCoord
MaxCoord == 1
\* components of unconstrained quaternions range over -MaxComp .. MaxComp
MaxComp == 1
\* number of mul / conj applications in a composition chain
MaxChain == 3

(***************************************************************************)
(* Scalars: T with the Float capability (zero, one, from_f64, +, *, /,     *)
(* negation, sqrt), in exact arithmetic over Q(sqrt 2).                    *)
(***************************************************************************)
Abs(n) == IF n < 0 THEN -n ELSE n

RECURSIVE GCD(_, _)
GCD(m, n) == IF n = 0 THEN m ELSE GCD(n, m % n)

\* (a + b*sqrt(2)) / d in canonical form; d # 0
Sc(a, b, d) ==
    LET g == GCD(GCD(Abs(a), Abs(b)), Abs(d))
        sg == IF d < 0 THEN -1 ELSE 1
    IN  <<(sg * a) \div g, (sg * b) \div g, (sg * d) \div g>>

Rat(n, d) == Sc(n, 0, d)
FInt(n) == <<n, 0, 1>>

Zero == <<0, 0, 1>>
One == <<1, 0, 1>>
\* T::from_f64(0.5)
Half == <<1, 0, 2>>
\* T::from_f64(2.0)
Two == <<2, 0, 1>>
\* sqrt(2)/2 = cos(pi/4) = sin(pi/4)
Sqrt2Half == <<0, 1, 2>>

\* over the least common denominator
FAdd(x, y) ==
    LET g == GCD(x[3], y[3])
        kx == y[3] \div g
        ky == x[3] \div g
    IN  Sc(x[1] * kx + y[1] * ky, x[2] * kx + y[2] * ky, x[3] * kx)
FNeg(x) == <<-x[1], -x[2], x[3]>>
FSub(x, y) == FAdd(x, FNeg(y))
FMul(x, y) ==
    Sc(x[1] * y[1] + 2 * x[2] * y[2], x[1] * y[2] + x[2] * y[1], x[3] * y[3])
\* 1 / x for x # 0:  d / (a + b sqrt2) = d (a - b sqrt2) / (a^2 - 2 b^2)
FRecip(x) == Sc(x[3] * x[1], -(x[3] * x[2]), x[1] * x[1] - 2 * x[2] * x[2])
FDiv(x, y) == FMul(x, FRecip(y))

IsSquare(n) == n >= 0 /\ \E m \in 0..n : m * m = n
ISqrt(n) == CHOOSE m \in 0..n : m * m = n

\* the scalars whose square root is again a scalar of the model:
\* positive rationals n/d with n*d = m^2 (root m/d) or n*d = 2 m^2 (root m sqrt2 / d)
HasExactSqrt(x) ==
    /\ x[2] = 0
    /\ x[1] > 0
    /\ \/ IsSquare(x[1] * x[3])
       \/ (x[1] * x[3]) % 2 = 0 /\ IsSquare((x[1] * x[3]) \div 2)

FSqrt(x) ==
    LET n == x[1] * x[3]
    IN  IF IsSquare(n) THEN Sc(ISqrt(n), 0, x[3])
        ELSE Sc(0, ISqrt(n \div 2), x[3])

(***************************************************************************)
(* vecmath::Vector3<T> = [T; 3]                                            *)
(***************************************************************************)
vec3_add(a, b) == <<FAdd(a[1], b[1]), FAdd(a[2], b[2]), FAdd(a[3], b[3])>>
vec3_scale(a, k) == <<FMul(a[1], k), FMul(a[2], k), FMul(a[3], k)>>
vec3_dot(a, b) == FAdd(FAdd(FMul(a[1], b[1]), FMul(a[2], b[2])), FMul(a[3], b[3]))
vec3_cross(a, b) ==
    << FSub(FMul(a[2], b[3]), FMul(a[3], b[2])),
       FSub(FMul(a[3], b[1]), FMul(a[1], b[3])),
       FSub(FMul(a[1], b[2]), FMul(a[2], b[1])) >>

ZeroVec == <<Zero, Zero, Zero>>
Vec(x, y, z) == <<FInt(x), FInt(y), FInt(z)>>

(***************************************************************************)
(* The quaternion crate: Quaternion<T> = (T, [T; 3]).                      *)
(***************************************************************************)
q_id == <<One, ZeroVec>>
q_add(a, b) == <<FAdd(a[1], b[1]), vec3_add(a[2], b[2])>>
q_scale(q, k) == <<FMul(q[1], k), vec3_scale(q[2], k)>>
q_dot(a, b) == FAdd(FMul(a[1], b[1]), vec3_dot(a[2], b[2]))
q_conj(q) == <<q[1], <<FNeg(q[2][1]), FNeg(q[2][2]), FNeg(q[2][3])>>>>
\* Hamilton product
q_mul(a, b) ==
    << FSub(FMul(a[1], b[1]), vec3_dot(a[2], b[2])),
       vec3_add(vec3_add(vec3_scale(b[2], a[1]), vec3_scale(a[2], b[1])),
                vec3_cross(a[2], b[2])) >>
\* q * (0, v) * conj(q), vector part
rotate_vector(q, v) == q_mul(q_mul(q, <<Zero, v>>), q_conj(q))[2]

(***************************************************************************)
(* The library: src/src/lib.rs                                             *)
(***************************************************************************)
\* id with a non-zero dual part
id_dual_one == << <<One, <<Zero, Zero, Zero>>>>, <<One, <<Zero, Zero, Zero>>>> >>

id == << <<One, <<Zero, Zero, Zero>>>>, <<Zero, <<Zero, Zero, Zero>>>> >>

\* the product taken as rotation * (0, translation)
from_rotation_and_translation_swapped(rotation, translation) ==
    << rotation,
       q_scale(q_mul(rotation, <<Zero, translation>>), Half) >>

from_rotation_and_translation(rotation, translation) ==
    << rotation,
       q_scale(q_mul(<<Zero, translation>>, rotation), Half) >>

add(a, b) == << q_add(a[1], b[1]), q_add(a[2], b[2]) >>

\* the reversed form: real = b.real * a.real, dual = b.dual*a.real + b.real*a.dual
mul_reversed(a, b) ==
    << q_mul(b[1], a[1]),
       q_add(q_mul(b[2], a[1]), q_mul(b[1], a[2])) >>

\* the real part alone reversed
mul_real_swapped(a, b) ==
    << q_mul(b[1], a[1]),
       q_add(q_mul(a[1], b[2]), q_mul(a[2], b[1])) >>

\* the dual part without its second term
mul_first_term_only(a, b) ==
    << q_mul(a[1], b[1]),
       q_mul(a[1], b[2]) >>

mul(a, b) ==
    << q_mul(a[1], b[1]),
       q_add(q_mul(a[1], b[2]), q_mul(a[2], b[1])) >>

\* only the real part scaled
scale_real_only(q, k) == << q_scale(q[1], k), q[2] >>

scale(q, k) == << q_scale(q[1], k), q_scale(q[2], k) >>

\* only the real part conjugated
conj_real_only(q) == << q_conj(q[1]), q[2] >>

conj(q) == << q_conj(q[1]), q_conj(q[2]) >>

dot(a, b) == q_dot(a[1], b[1])

\* the correction term taken with dot(q, q) in place of dot(q.0, q.1)
normalize_wrong_dot(q) ==
    LET real_len_recip == FDiv(One, FSqrt(dot(q, q)))
    IN  << q_scale(q[1], real_len_recip),
           q_add(q_scale(q[2], real_len_recip),
                 q_scale(q[1], FNeg(dot(q, q)))) >>

\* scaling by the length in place of its reciprocal
normalize_no_recip(q) ==
    LET real_len == FSqrt(dot(q, q))
    IN  << q_scale(q[1], real_len),
           q_add(q_scale(q[2], real_len),
                 q_scale(q[1], FNeg(q_dot(q[1], q[2])))) >>

normalize(q) ==
    LET real_len_recip == FDiv(One, FSqrt(dot(q, q)))
    IN  << q_scale(q[1], real_len_recip),
           q_add(q_scale(q[2], real_len_recip),
                 q_scale(q[1], FNeg(q_dot(q[1], q[2])))) >>

get_rotation(q) == q[1]

\* without the factor two
get_translation_unscaled(q) == q_mul(q[2], q_conj(q[1]))[2]

get_translation(q) == q_mul(q_scale(q[2], Two), q_conj(q[1]))[2]

(***************************************************************************)
(* Input sets.                                                             *)
(***************************************************************************)
Quat(w, x, y, z) == <<w, <<x, y, z>>>>

\* quarter turns about the coordinate axes: (cos 45, sin 45 * axis)
R90X == Quat(Sqrt2Half, Sqrt2Half, Zero, Zero)
R90Y == Quat(Sqrt2Half, Zero, Sqrt2Half, Zero)
R90Z == Quat(Sqrt2Half, Zero, Zero, Sqrt2Half)

\* +-1, +-i, +-j, +-k
AxisUnits ==
    { Quat(FInt(e[1]), FInt(e[2]), FInt(e[3]), FInt(e[4])) :
        e \in { f \in [1..4 -> -1..1] :
                  Abs(f[1]) + Abs(f[2]) + Abs(f[3]) + Abs(f[4]) = 1 } }

\* (+-1 +-i +-j +-k) / 2
HalfUnits ==
    { Quat(Rat(e[1], 2), Rat(e[2], 2), Rat(e[3], 2), Rat(e[4], 2)) :
        e \in [1..4 -> {-1, 1}] }

UnitQuats ==
    AxisUnits \cup HalfUnits
      \cup { R90X, R90Y, R90Z, Quat(Rat(3, 5), Zero, Rat(4, 5), Zero) }

UnitSmall ==
    { q_id, Quat(Zero, One, Zero, Zero), Quat(Zero, Zero, Zero, FInt(-1)),
      R90X, R90Y, R90Z,
      Quat(Half, Half, Half, Half), Quat(Rat(3, 5), Zero, Rat(4, 5), Zero) }

Coords == (-MaxCoord)..MaxCoord

\* the translations of the library's tests
TestVecs == { Vec(1, 2, 3), Vec(1, -2, 0) }

Vecs == { Vec(x, y, z) : x, y, z \in Coords } \cup TestVecs

AxisVecs ==
    { Vec(c, 0, 0) : c \in Coords } \cup { Vec(0, c, 0) : c \in Coords }
      \cup { Vec(0, 0, c) : c \in Coords } \cup TestVecs

Points == { Vec(0, 0, 0), Vec(1, 0, 0), Vec(0, 1, 0), Vec(0, 0, 1), Vec(1, 1, 1) }

(***************************************************************************)
(* State.  A calling program holds                                         *)
(*   r, t     the rotations and translations it was given,                 *)
(*   p, s     a point and a scalar it was given,                           *)
(*   dq       the dual-quaternions it has computed so far, in order,       *)
(*   r_prime, t_prime, v_prime                                             *)
(*            the results of get_rotation, get_translation and of          *)
(*            applying a transform to a point,                             *)
(*   steps    the number of mul and conj applications of a chain,          *)
(*   pc       its position.                                                *)
(***************************************************************************)
Last(seq) == seq[Len(seq)]

\* dq.push(from_rotation_and_translation(r[i], t[i])) for the next i
Construct(from, to) ==
    /\ pc = from
    /\ Len(dq) < Len(r)
    /\ dq' = Append(dq, from_rotation_and_translation(r[Len(dq) + 1], t[Len(dq) + 1]))
    /\ pc' = IF Len(dq') = Len(r) THEN to ELSE from
    /\ UNCHANGED <<steps, r, t, p, s, r_prime, t_prime, v_prime>>

\* r_prime = get_rotation(last dq)
GetRotation(from, to) ==
    /\ pc = from
    /\ r_prime' = get_rotation(Last(dq))
    /\ pc' = to
    /\ UNCHANGED <<steps, r, t, p, s, dq, t_prime, v_prime>>

\* t_prime = get_translation(last dq)
GetTranslation(from, to) ==
    /\ pc = from
    /\ t_prime' = get_translation(Last(dq))
    /\ pc' = to
    /\ UNCHANGED <<steps, r, t, p, s, dq, r_prime, v_prime>>

\* dq.push(conj(last dq))
Conj(from, to) ==
    /\ pc = from
    /\ dq' = Append(dq, conj(Last(dq)))
    /\ pc' = to
    /\ UNCHANGED <<steps, r, t, p, s, r_prime, t_prime, v_prime>>

\* dq.push(mul(dq[i], dq[j]))
Mul(from, to, i, j) ==
    /\ pc = from
    /\ dq' = Append(dq, mul(dq[i], dq[j]))
    /\ pc' = to
    /\ UNCHANGED <<steps, r, t, p, s, r_prime, t_prime, v_prime>>

(***************************************************************************)
(* Construction, extraction and inversion                                  *)
(* (test_construction_and_extraction, test_mul_conj).                      *)
(***************************************************************************)
InitRigid ==
    /\ pc = "start"
    /\ steps = 0
    /\ r \in { <<R>> : R \in UnitQuats }
    /\ t \in { <<V>> : V \in Vecs }
    /\ p = ZeroVec
    /\ s = One
    /\ dq = <<>>
    /\ r_prime = q_id
    /\ t_prime = ZeroVec
    /\ v_prime = ZeroVec

NextRigid ==
    \/ Construct("start", "dq")
    \/ GetRotation("dq", "dq_r")
    \/ GetTranslation("dq_r", "round_trip")
    \/ Conj("dq", "dq_conj")
    \/ Mul("dq_conj", "dq_prime", 1, 2)
    \/ GetRotation("dq_prime", "dq_prime_r")
    \/ GetTranslation("dq_prime_r", "mul_conj")

SpecRigid == InitRigid /\ [][NextRigid]_vars

\* C1: round trip: for a unit rotation R and any translation V, the rotation
\* and the translation extracted from from_rotation_and_translation(R, V)
\* are R and V.
RoundTrip == pc = "round_trip" => r_prime = r[1] /\ t_prime = t[1]

RoundTripWitness ==
    /\ pc = "round_trip"
    /\ r[1] = R90Y
    /\ t[1] = Vec(1, 2, 3)
    /\ dq[1][2] # <<Zero, ZeroVec>>

\* C2: conjugate is the inverse: mul(dq, conj(dq)) has translation [0,0,0]
\* and the identity rotation.
ConjIsInverse == pc = "mul_conj" => t_prime = ZeroVec /\ r_prime = q_id

ConjIsInverseWitness ==
    /\ pc = "mul_conj"
    /\ r[1] = Quat(Half, Half, Half, Half)
    /\ t[1] = Vec(1, 2, 3)
    /\ dq[2] # dq[1]

(***************************************************************************)
(* Composition of two transforms (test_mul_translations).                  *)
(***************************************************************************)
\* the action of the rigid transform d on the point pt
apply(d, pt) == vec3_add(rotate_vector(get_rotation(d), pt), get_translation(d))

\* v_prime = apply(last dq, pt) for a point pt the caller picks
Apply(from, to) ==
    /\ pc = from
    /\ \E pt \in Points :
         /\ p' = pt
         /\ v_prime' = apply(Last(dq), pt)
    /\ pc' = to
    /\ UNCHANGED <<steps, r, t, s, dq, r_prime, t_prime>>

InitCompose ==
    /\ pc = "start"
    /\ steps = 0
    /\ \/ /\ r \in { <<Ra, Rb>> : Ra, Rb \in UnitSmall }
          /\ t \in { <<Ta, Tb>> : Ta, Tb \in AxisVecs }
       \/ /\ r = <<q_id, q_id>>
          /\ t \in { <<T1, T2>> : T1, T2 \in Vecs }
    /\ p = ZeroVec
    /\ s = One
    /\ dq = <<>>
    /\ r_prime = q_id
    /\ t_prime = ZeroVec
    /\ v_prime = ZeroVec

NextCompose ==
    \/ Construct("start", "a_b")
    \/ Mul("a_b", "ab", 1, 2)
    \/ Apply("ab", "applied")
    \/ GetRotation("ab", "ab_r")
    \/ GetTranslation("ab_r", "extracted")

SpecCompose == InitCompose /\ [][NextCompose]_vars

\* C3 as stated: mul(a, b) applies a first and then b:
\* apply(mul(a, b), p) = apply(b, apply(a, p)).
MulAppliesAThenB == pc = "applied" => v_prime = apply(dq[2], apply(dq[1], p))

\* C3 as amended: mul(a, b) applies b first and then a:
\* apply(mul(a, b), p) = apply(a, apply(b, p)).
MulAppliesBThenA == pc = "applied" => v_prime = apply(dq[1], apply(dq[2], p))

MulAppliesBThenAWitness ==
    /\ pc = "applied"
    /\ r = <<R90X, R90Y>>
    /\ t = <<Vec(1, 0, 0), Vec(0, 0, 1)>>
    /\ p = Vec(0, 1, 0)
    /\ apply(dq[1], apply(dq[2], p)) # apply(dq[2], apply(dq[1], p))

\* C4: translation-only composition: with identity rotations the product has
\* translation T1 + T2 and the identity rotation; [1,2,3] and [1,-2,0] give
\* [2,0,3].
TranslationsAdd ==
    (pc = "extracted" /\ r = <<q_id, q_id>>) =>
        /\ t_prime = vec3_add(t[1], t[2])
        /\ r_prime = q_id
        /\ (t = <<Vec(1, 2, 3), Vec(1, -2, 0)>> => t_prime = Vec(2, 0, 3))

TranslationsAddWitness ==
    /\ pc = "extracted"
    /\ r = <<q_id, q_id>>
    /\ t = <<Vec(1, 2, 3), Vec(1, -2, 0)>>
    /\ t_prime = Vec(2, 0, 3)

(***************************************************************************)
(* Composition of three rotations (test_mul_rotations).                    *)
(***************************************************************************)
\* v_prime = rotate_vector(r_prime, [1, 0, 0])
RotateTest(from, to) ==
    /\ pc = from
    /\ p' = Vec(1, 0, 0)
    /\ v_prime' = rotate_vector(r_prime, Vec(1, 0, 0))
    /\ pc' = to
    /\ UNCHANGED <<steps, r, t, s, dq, r_prime, t_prime>>

InitRotations ==
    /\ pc = "start"
    /\ steps = 0
    /\ r \in { <<r1, r2, r3>> : r1, r2, r3 \in UnitSmall }
    /\ t = <<ZeroVec, ZeroVec, ZeroVec>>
    /\ p = ZeroVec
    /\ s = One
    /\ dq = <<>>
    /\ r_prime = q_id
    /\ t_prime = ZeroVec
    /\ v_prime = ZeroVec

NextRotations ==
    \/ Construct("start", "dq1_dq2_dq3")
    \/ Mul("dq1_dq2_dq3", "dq12", 1, 2)
    \/ Mul("dq12", "dq4", 4, 3)
    \/ GetRotation("dq4", "dq4_r")
    \/ GetTranslation("dq4_r", "dq4_rt")
    \/ RotateTest("dq4_rt", "rotated")

SpecRotations == InitRotations /\ [][NextRotations]_vars

\* C5: rotation-only composition: mul(mul(dq1, dq2), dq3) has translation
\* [0,0,0] and rotation r1*r2*r3; for quarter turns about Y, Z and X that
\* rotation maps [1,0,0] to [0,1,0].
RotationsCompose ==
    pc = "rotated" =>
        /\ t_prime = ZeroVec
        /\ r_prime = q_mul(q_mul(r[1], r[2]), r[3])
        /\ (r = <<R90Y, R90Z, R90X>> => v_prime = Vec(0, 1, 0))

RotationsComposeWitness ==
    /\ pc = "rotated"
    /\ r = <<R90Y, R90Z, R90X>>
    /\ v_prime = Vec(0, 1, 0)

(***************************************************************************)
(* Unconstrained dual-quaternions: identity law, normalize, scale.         *)
(***************************************************************************)
Comps == (-MaxComp)..MaxComp

\* quaternions with at most two non-zero integer components, and a few
\* others with all components non-zero, fractional or irrational
AnyQuats ==
    { Quat(FInt(e[1]), FInt(e[2]), FInt(e[3]), FInt(e[4])) :
        e \in { f \in [1..4 -> Comps] :
                  Cardinality({ i \in 1..4 : f[i] # 0 }) <= 2 } }
      \cup { R90X, Quat(Half, Half, Half, Half), Quat(One, One, One, One),
             Quat(Two, Zero, Zero, Zero), Quat(Rat(3, 5), Zero, Rat(4, 5), Zero) }

AnyDQ == { <<re, du>> : re, du \in AnyQuats }

RigidDQ == { from_rotation_and_translation(R, V) : R \in UnitSmall, V \in AxisVecs }

\* dq.push(id())
Id(from, to) ==
    /\ pc = from
    /\ dq' = Append(dq, id)
    /\ pc' = to
    /\ UNCHANGED <<steps, r, t, p, s, r_prime, t_prime, v_prime>>

InitIdentity ==
    /\ pc = "start"
    /\ steps = 0
    /\ r = <<>>
    /\ t = <<>>
    /\ p = ZeroVec
    /\ s = One
    /\ dq \in { <<x>> : x \in AnyDQ \cup RigidDQ }
    /\ r_prime = q_id
    /\ t_prime = ZeroVec
    /\ v_prime = ZeroVec

NextIdentity ==
    \/ Id("start", "x_id")
    \/ Mul("x_id", "mul_id_x", 2, 1)
    \/ Mul("x_id", "mul_x_id", 1, 2)

SpecIdentity == InitIdentity /\ [][NextIdentity]_vars

\* C6: identity law: mul(id(), x) = x and mul(x, id()) = x for every
\* dual-quaternion x, a rigid transform or not.
IdentityLaw == pc \in {"mul_id_x", "mul_x_id"} => dq[3] = dq[1]

IdentityLawWitness ==
    /\ pc = "mul_id_x"
    /\ dq[1] = <<Quat(One, One, One, One), Quat(Zero, FInt(-1), One, Zero)>>
    /\ dq[2] = id

\* dq.push(normalize(last dq))
Normalize(from, to) ==
    /\ pc = from
    /\ dq' = Append(dq, normalize(Last(dq)))
    /\ pc' = to
    /\ UNCHANGED <<steps, r, t, p, s, r_prime, t_prime, v_prime>>

\* the rigid-transform invariant of section 3 of the documentation
IsRigid(q) == dot(q, q) = One /\ q_dot(q[1], q[2]) = Zero

\* normalize's inputs: a non-zero real part, whose length is a scalar of the model
InitNormalize ==
    /\ pc = "start"
    /\ steps = 0
    /\ r = <<>>
    /\ t = <<>>
    /\ p = ZeroVec
    /\ s = One
    /\ dq \in { <<x>> : x \in { y \in AnyDQ \cup RigidDQ : HasExactSqrt(dot(y, y)) } }
    /\ r_prime = q_id
    /\ t_prime = ZeroVec
    /\ v_prime = ZeroVec

NextNormalize ==
    \/ Normalize("start", "normalized")
    \/ Normalize("normalized", "normalized_twice")

SpecNormalize == InitNormalize /\ [][NextNormalize]_vars

\* C7: normalize leaves normalized input unchanged: if dot(q.real, q.real) = 1
\* and dot(q.real, q.dual) = 0 then normalize(q) = q and
\* normalize(normalize(q)) = normalize(q).
NormalizeFixesRigid ==
    (pc \in {"normalized", "normalized_twice"} /\ IsRigid(dq[1])) =>
        /\ dq[2] = dq[1]
        /\ (pc = "normalized_twice" => dq[3] = dq[2])

NormalizeFixesRigidWitness ==
    /\ pc = "normalized_twice"
    /\ IsRigid(dq[1])
    /\ dq[1] = from_rotation_and_translation(R90Y, Vec(1, 2, 3))
    /\ dq[3] = dq[1]

\* C8 as stated: for every q with a non-zero real part, n = normalize(q) has
\* dot(n.real, n.real) = 1 and dot(n.real, n.dual) = 0.
NormalizeRestoresInvariant ==
    pc = "normalized" => dot(dq[2], dq[2]) = One /\ q_dot(dq[2][1], dq[2][2]) = Zero

\* C8 as amended: n = normalize(q) has dot(n.real, n.real) = 1, and
\* dot(n.real, n.dual) = 0 exactly when dot(q.real, q.real) = 1 or
\* dot(q.real, q.dual) = 0 held of the input.
NormalizeRestoresUnitReal ==
    pc = "normalized" =>
        /\ dot(dq[2], dq[2]) = One
        /\ (q_dot(dq[2][1], dq[2][2]) = Zero
              <=> (dot(dq[1], dq[1]) = One \/ q_dot(dq[1][1], dq[1][2]) = Zero))

NormalizeRestoresUnitRealWitness ==
    /\ pc = "normalized"
    /\ dq[1] = <<Quat(One, One, Zero, Zero), Quat(One, Zero, Zero, Zero)>>
    /\ dot(dq[2], dq[2]) = One
    /\ q_dot(dq[2][1], dq[2][2]) # Zero

\* the scalars scale is tried with
Scalars ==
    { Rat(k, d) : k \in (-(MaxComp + 1))..(MaxComp + 1), d \in 1..2 }
      \cup { Sqrt2Half, FNeg(Sqrt2Half), FMul(Two, Sqrt2Half) }

\* dq.push(scale(last dq, s))
Scale(from, to) ==
    /\ pc = from
    /\ dq' = Append(dq, scale(Last(dq), s))
    /\ pc' = to
    /\ UNCHANGED <<steps, r, t, p, s, r_prime, t_prime, v_prime>>

InitScale ==
    /\ pc = "start"
    /\ steps = 0
    /\ r = <<>>
    /\ t = <<>>
    /\ p = ZeroVec
    /\ s \in Scalars
    /\ dq \in { <<x>> : x \in { y \in AnyDQ \cup RigidDQ : dot(y, y) = One } }
    /\ r_prime = q_id
    /\ t_prime = ZeroVec
    /\ v_prime = ZeroVec

NextScale == Scale("start", "scaled")

SpecScale == InitScale /\ [][NextScale]_vars

\* each of the 8 components of b is the component of a times k
ScaledBy(a, b, k) ==
    \A i \in 1..2 :
        /\ b[i][1] = FMul(a[i][1], k)
        /\ \A j \in 1..3 : b[i][2][j] = FMul(a[i][2][j], k)

\* C9 as stated: scale(q, t) multiplies each component by t, and for a q with
\* a unit real part the result has a unit real part if and only if t = 1.
ScaleUnitOnlyForOne ==
    pc = "scaled" =>
        /\ ScaledBy(dq[1], dq[2], s)
        /\ (dot(dq[2], dq[2]) = One <=> s = One)

\* C9 as amended: scale(q, t) multiplies each component by t, and for a q with
\* a unit real part the result has a unit real part if and only if t = 1 or
\* t = -1.
ScaleUnitOnlyForPlusMinusOne ==
    pc = "scaled" =>
        /\ ScaledBy(dq[1], dq[2], s)
        /\ (dot(dq[2], dq[2]) = One <=> s \in {One, FNeg(One)})

ScaleUnitOnlyForPlusMinusOneWitness ==
    /\ pc = "scaled"
    /\ s = FNeg(One)
    /\ dq[1] = from_rotation_and_translation(R90X, Vec(0, 1, 0))
    /\ dot(dq[2], dq[2]) = One
    /\ dq[2] # dq[1]

(***************************************************************************)
(* Chains of mul and conj over rigid transforms.                           *)
(***************************************************************************)
ChainGens ==
    { from_rotation_and_translation(R, V) :
        R \in { R90X, R90Z, Quat(Half, Half, Half, Half) },
        V \in { Vec(1, 0, 0), Vec(1, -2, 0) } }

\* the chain starts from id() ...
ChainId == Id("start", "chain")

\* ... or from from_rotation_and_translation(R, V)
ChainFrom ==
    /\ pc = "start"
    /\ \E g \in ChainGens : dq' = <<g>>
    /\ pc' = "chain"
    /\ UNCHANGED <<steps, r, t, p, s, r_prime, t_prime, v_prime>>

\* cur = mul(cur, g)
ChainMulRight ==
    /\ pc = "chain"
    /\ steps < MaxChain
    /\ \E g \in ChainGens : dq' = <<mul(dq[1], g)>>
    /\ steps' = steps + 1
    /\ UNCHANGED <<pc, r, t, p, s, r_prime, t_prime, v_prime>>

\* cur = mul(g, cur)
ChainMulLeft ==
    /\ pc = "chain"
    /\ steps < MaxChain
    /\ \E g \in ChainGens : dq' = <<mul(g, dq[1])>>
    /\ steps' = steps + 1
    /\ UNCHANGED <<pc, r, t, p, s, r_prime, t_prime, v_prime>>

\* cur = mul(cur, cur)
ChainMulSelf ==
    /\ pc = "chain"
    /\ steps < MaxChain
    /\ dq' = <<mul(dq[1], dq[1])>>
    /\ steps' = steps + 1
    /\ UNCHANGED <<pc, r, t, p, s, r_prime, t_prime, v_prime>>

\* cur = conj(cur)
ChainConj ==
    /\ pc = "chain"
    /\ steps < MaxChain
    /\ dq' = <<conj(dq[1])>>
    /\ steps' = steps + 1
    /\ UNCHANGED <<pc, r, t, p, s, r_prime, t_prime, v_prime>>

InitChain ==
    /\ pc = "start"
    /\ steps = 0
    /\ r = <<>>
    /\ t = <<>>
    /\ p = ZeroVec
    /\ s = One
    /\ dq = <<>>
    /\ r_prime = q_id
    /\ t_prime = ZeroVec
    /\ v_prime = ZeroVec

NextChain ==
    \/ ChainId
    \/ ChainFrom
    \/ ChainMulRight
    \/ ChainMulLeft
    \/ ChainMulSelf
    \/ ChainConj

SpecChain == InitChain /\ [][NextChain]_vars

\* C10: the rigid-transform invariant is closed under composition: every
\* value reached from id() and from_rotation_and_translation(R, V), R unit,
\* by mul and conj has dot(real, real) = 1 and dot(real, dual) = 0.
RigidClosed == pc = "chain" => IsRigid(dq[1])

RigidClosedWitness ==
    /\ pc = "chain"
    /\ steps = MaxChain
    /\ dq[1][2] # <<Zero, ZeroVec>>
    /\ dq[1] \notin ChainGens
    /\ get_translation(dq[1]) # ZeroVec
    /\ IsRigid(dq[1])

====
